---- MODULE Spec2Model ----
(***************************************************************************)
(* Model of the journaling assistant's conversation store                  *)
(* (src/src/journaling_assistant/database.py), its title summarizer        *)
(* (summarizer.py), the chat session (agent.py, sync_agent.py) and the     *)
(* turn handling and summary flow of the Streamlit application             *)
(* (streamlit_app.py).                                                     *)
(*                                                                         *)
(* The store is one SQLite connection shared by every caller.  Python's    *)
(* sqlite3 module opens a transaction implicitly before the first          *)
(* INSERT/UPDATE/DELETE and keeps it open until commit(); the module never *)
(* calls rollback().  The model therefore keeps two copies of the tables:  *)
(* what the connection sees (conversations, messages) and what the last    *)
(* successful commit made durable (committed_conversations,                *)
(* committed_messages).  Every read of the program goes through the same   *)
(* connection and so reads the first copy.                                 *)
(*                                                                         *)
(* Besides the calls on an open store the model has the opening of a      *)
(* store file written by an earlier version (init_database with           *)
(* _run_migrations), add_message executed statement by statement by two   *)
(* threads on the shared connection, the buttons of the application's     *)
(* side bar, and one turn of the agent taken request by request.          *)
(*                                                                         *)
(* PRAGMA foreign_keys is never issued, so the FOREIGN KEY ... ON DELETE   *)
(* CASCADE clause of the messages table is declared but not enforced.      *)
(*                                                                         *)
(* Text is a sequence of one-character strings.  An Optional value is      *)
(* None (the empty tuple) or Some(x) (a one-element tuple).  Timestamps    *)
(* are clock ticks; datetime.now() is bound as ISO-8601 text, whose        *)
(* text order is the order of the ticks.  The clock never runs backwards   *)
(* but two reads may return the same tick.                                 *)
(***************************************************************************)
EXTENDS Integers, Sequences, FiniteSets, TLC

\* ---- bounds of the model ------------------------------------------------
MaxConv == 2
MaxMsg == 4
MaxTime == 1
MaxCalls == 4

\* ---- values ---------------------------------------------------------------
None == <<>>
Some(x) == <<x>>

\* of a never-created conversation: no uuid4 ever equals it
UnknownId == 0

Roles == {"user", "system"}

Titles == { <<"a">>, <<"B">> }

Moods == { <<"m">> }

GoalLists == { << <<"g">> >> }

\* (title, current_mood, goals) arguments of update_conversation: the title
\* supplied or not
UpdateArgs == { <<None, None, None>> } \cup { <<Some(x), None, None>> : x \in Titles }

\* (title, current_mood, goals) arguments of update_conversation: each one
\* supplied or left at its default None
AllUpdateArgs ==
    { <<title, current_mood, goals>> :
        title \in {None} \cup { Some(x) : x \in Titles },
        current_mood \in {None} \cup { Some(x) : x \in Moods },
        goals \in {None} \cup { Some(x) : x \in GoalLists } }

Contents == { <<"h","i">> }

Queries == { <<"a">>, <<"_">>, <<"z">> }

\* default page sizes of the listing queries
DefaultListLimit == 50
DefaultSearchLimit == 20

Limits == {1, DefaultSearchLimit, DefaultListLimit}
Offsets == {0, 1}

\* outcomes of the storage engine inside add_message: no fault, or a storage
\* error raised by the INSERT, by the UPDATE or by the COMMIT
Faults == {"none", "insert", "update", "commit"}

VARIABLES
    conversations,            \* conversations table as the connection sees it: id -> row
    messages,                 \* messages table as the connection sees it, in rowid order
    committed_conversations,  \* conversations table as of the last successful commit
    committed_messages,       \* messages table as of the last successful commit
    now,                      \* last value read from the clock
    next_conversation_id,     \* number of uuid4 values drawn for conversations, plus one
    next_message_id,          \* number of uuid4 values drawn for messages, plus one
    calls,                    \* number of calls made so far
    summary_column,           \* does the conversations table of the store file have the
                              \* summary_generated column?
    threads,                  \* for every thread that calls add_message on the shared
                              \* store: the statement it executes next and the Message
                              \* it has built
    agent,                    \* the agent run of the turn being sent, or of the last turn
                              \* sent: where it stands, the message, whether tools are
                              \* offered, the model requests issued and the tool results
                              \* handed back so far
    session,                  \* the chat session: the UI's conversation id, message log
                              \* and selected mood (current_mood), the assistant's
                              \* history, mood and goals, the turn sequence last handed
                              \* to the model collaborator, and what the summary trigger
                              \* of the last turn did
    result                    \* the last call: operation, id argument, text argument (title or
                              \* content), outcome, return value, outcome of the model
                              \* collaborator if it was invoked, and the addressed conversation
                              \* row as it was before the call

vars == <<conversations, messages, committed_conversations, committed_messages,
          now, next_conversation_id, next_message_id, calls, summary_column, threads,
          agent, session, result>>

store == <<conversations, messages, committed_conversations, committed_messages>>

\* ---- helpers --------------------------------------------------------------
Exists(cid) == cid \in DOMAIN conversations

\* ids a caller can hold: ids handed out so far, and one that never was
KnownIds == {UnknownId} \cup (1..(next_conversation_id - 1))

\* datetime.now(): the same tick again or the next one
ClockReads == { t \in {now, now + 1} : t <= MaxTime }

\* rowids of the message rows of one conversation
RowsOf(msgs, cid) == { i \in 1..Len(msgs) : msgs[i].conversation_id = cid }

\* all orders of a finite set
Perms(S) == { f \in [1..Cardinality(S) -> S] : \A i, j \in 1..Cardinality(S) : f[i] = f[j] => i = j }

\* ORDER BY key ASC: every order of S with non-decreasing keys (SQL leaves the
\* order of rows with equal keys undefined, and the queries name no second key)
OrderByAsc(S, key(_)) ==
    { f \in Perms(S) : \A i \in 1..(Cardinality(S) - 1) : key(f[i]) <= key(f[i + 1]) }

\* ORDER BY key DESC
OrderByDesc(S, key(_)) ==
    { f \in Perms(S) : \A i \in 1..(Cardinality(S) - 1) : key(f[i]) >= key(f[i + 1]) }

Min(a, b) == IF a <= b THEN a ELSE b

\* LIMIT lim OFFSET off applied to a result sequence
LimitOffset(s, lim, off) ==
    IF off >= Len(s) THEN <<>> ELSE SubSeq(s, off + 1, Min(Len(s), off + lim))

\* Conversation(...) row written by create_conversation
NewConversation(title, t) ==
    [ title |-> title, user_name |-> None, current_mood |-> None, goals |-> <<>>,
      created_at |-> t, updated_at |-> t, message_count |-> 0,
      summary_generated |-> FALSE ]

\* the record kept of a call
Result(op, cid, arg, outcome, value, model, before) ==
    [ op |-> op, id |-> cid, arg |-> arg, outcome |-> outcome, value |-> value,
      model |-> model, before |-> before ]

\* the addressed row before the call
Before(cid) == IF Exists(cid) THEN Some(conversations[cid]) ELSE None

\* initialize_session_state and JournalingContext(): nothing said yet
NewSession ==
    [ conversation_id |-> None, log |-> << >>, history |-> << >>, mood |-> None,
      goals |-> << >>, request |-> << >>, trigger |-> "none", current_mood |-> None ]

\* the threads of two browser sessions, which share the module's db instance
Threads == {"s1", "s2"}

\* a thread outside add_message
Idle == [ pc |-> "idle", message |-> None ]

\* no turn has been sent
NoRun == [ pc |-> "idle", message |-> << >>, tools |-> FALSE, requests |-> 0, returns |-> 0 ]

\* ---- Init -----------------------------------------------------------------
\* JournalingDatabase.__init__ on a new file: both tables created with every
\* column, empty, committed
Init ==
    /\ summary_column = TRUE
    /\ threads = [ th \in Threads |-> Idle ]
    /\ agent = NoRun
    /\ conversations = << >>
    /\ messages = << >>
    /\ committed_conversations = << >>
    /\ committed_messages = << >>
    /\ now = 0
    /\ calls = 0
    /\ next_conversation_id = 1
    /\ next_message_id = 1
    /\ session = NewSession
    /\ result = Result("init", UnknownId, None, "returned", None, "none", None)

\* ---- create_conversation ----------------------------------------------------
create_conversation(title, t) ==
    /\ next_conversation_id <= MaxConv
    /\ LET cid == next_conversation_id
           convs == [ c \in DOMAIN conversations \cup {cid} |->
                        IF c = cid THEN NewConversation(title, t) ELSE conversations[c] ]
       IN /\ conversations' = convs
          /\ committed_conversations' = convs
          /\ committed_messages' = messages
          /\ result' = Result("create_conversation", cid, Some(title), "returned", Some(cid), "none", None)
          /\ next_conversation_id' = cid + 1
    /\ now' = t
    /\ UNCHANGED <<messages, next_message_id>>

\* ---- add_message ------------------------------------------------------------
\* Message(...) row written by add_message
NewMessage(mid, cid, role, content, t) ==
    [ id |-> mid, conversation_id |-> cid, role |-> role, content |-> content,
      timestamp |-> t ]

\* CHECK (role IN ('user', 'assistant')) of the messages table; content is
\* only NOT NULL, and there is no enforced foreign key
InsertAccepted(role, content) == role \in {"user", "assistant"}

\* an UPDATE that increments the counter only
IncrementCountKeepingTime(convs, cid, t) ==
    [ c \in DOMAIN convs |->
        IF c = cid THEN [ convs[c] EXCEPT !.message_count = @ + 1 ] ELSE convs[c] ]

\* UPDATE conversations SET updated_at = ?, message_count = message_count + 1
\* WHERE id = ?
IncrementCount(convs, cid, t) ==
    [ c \in DOMAIN convs |->
        IF c = cid
        THEN [ convs[c] EXCEPT !.updated_at = t, !.message_count = @ + 1 ]
        ELSE convs[c] ]

\* add_message: INSERT, UPDATE, commit, with no rollback on any path.  fault
\* names the statement at which the storage engine raises; auto says whether
\* the engine rolled the whole open transaction back on that error (SQLite
\* may do either: by default it undoes only the failing statement).
add_message(cid, role, content, t, fault, auto) ==
    /\ next_message_id <= MaxMsg
    /\ LET mid == next_message_id
           inserted == Append(messages, NewMessage(mid, cid, role, content, t))
           updated == IncrementCount(conversations, cid, t)
           raised(kind) == Result("add_message", cid, Some(content), kind, None, "none", Before(cid))
       IN IF ~InsertAccepted(role, content)
          THEN \* IntegrityError: the INSERT is undone, the transaction stays open
               /\ fault = "none" /\ ~auto
               /\ result' = raised("IntegrityError")
               /\ UNCHANGED store
          ELSE CASE fault = "insert" ->
                      /\ result' = raised("StorageError")
                      /\ conversations' = IF auto THEN committed_conversations ELSE conversations
                      /\ messages' = IF auto THEN committed_messages ELSE messages
                      /\ UNCHANGED <<committed_conversations, committed_messages>>
                 [] fault = "update" ->
                      /\ result' = raised("StorageError")
                      /\ conversations' = IF auto THEN committed_conversations ELSE conversations
                      /\ messages' = IF auto THEN committed_messages ELSE inserted
                      /\ UNCHANGED <<committed_conversations, committed_messages>>
                 [] fault = "commit" ->
                      /\ result' = raised("StorageError")
                      /\ conversations' = IF auto THEN committed_conversations ELSE updated
                      /\ messages' = IF auto THEN committed_messages ELSE inserted
                      /\ UNCHANGED <<committed_conversations, committed_messages>>
                 [] OTHER ->
                      /\ ~auto
                      /\ result' = Result("add_message", cid, Some(content), "returned", Some(mid), "none",
                                           Before(cid))
                      /\ conversations' = updated
                      /\ messages' = inserted
                      /\ committed_conversations' = updated
                      /\ committed_messages' = inserted
    /\ now' = t
    /\ next_message_id' = next_message_id + 1
    /\ UNCHANGED next_conversation_id

\* ---- the read operations ------------------------------------------------------
\* They read through the shared connection and change nothing; each is the
\* set of lists the query may return in the current state.

\* get_conversation: the row, or None
get_conversation(cid) == IF Exists(cid) THEN Some(conversations[cid]) ELSE None

\* get_messages: SELECT * FROM messages WHERE conversation_id = ?
\* ORDER BY timestamp ASC
get_messages(cid) ==
    { [ k \in DOMAIN rows |-> messages[rows[k]] ] :
        rows \in OrderByAsc(RowsOf(messages, cid), LAMBDA i : messages[i].timestamp) }

\* the row orders ORDER BY timestamp ASC allows for the rows of msgs: a row
\* with the least timestamp first, then an order of the others
RECURSIVE TimestampOrders(_, _)
TimestampOrders(msgs, rows) ==
    IF rows = {} THEN { << >> }
    ELSE UNION { { <<i>> \o p : p \in TimestampOrders(msgs, rows \ {i}) } :
                 i \in { r \in rows : \A q \in rows : msgs[r].timestamp <= msgs[q].timestamp } }

\* get_messages run on the messages table msgs
ListMessages(msgs, cid) ==
    { [ k \in DOMAIN rows |-> msgs[rows[k]] ] : rows \in TimestampOrders(msgs, RowsOf(msgs, cid)) }

\* a listing ordered by creation time instead of update time
get_conversations_by_created_at(limit, offset) ==
    { LimitOffset(ids, limit, offset) :
        ids \in OrderByDesc(DOMAIN conversations, LAMBDA c : conversations[c].created_at) }

\* get_conversations: SELECT * FROM conversations ORDER BY updated_at DESC
\* LIMIT ? OFFSET ?   (the listed ids, in order)
get_conversations(limit, offset) ==
    { LimitOffset(ids, limit, offset) :
        ids \in OrderByDesc(DOMAIN conversations, LAMBDA c : conversations[c].updated_at) }

\* ---- update_conversation --------------------------------------------------------
\* a SET list that also writes the column default of summary_generated
ApplyUpdatesResettingSummary(row, title, current_mood, goals, t) ==
    [ row EXCEPT !.title = IF title = None THEN @ ELSE title[1],
                 !.current_mood = IF current_mood = None THEN @ ELSE current_mood,
                 !.goals = IF goals = None THEN @ ELSE goals[1],
                 !.updated_at = t,
                 !.summary_generated = FALSE ]

\* a SET list that writes every column, NULL for a field not supplied
ApplyUpdatesOverwritingAll(row, title, current_mood, goals, t) ==
    [ row EXCEPT !.title = IF title = None THEN @ ELSE title[1],
                 !.current_mood = current_mood,
                 !.goals = IF goals = None THEN <<>> ELSE goals[1],
                 !.updated_at = t ]

\* the SET list built from the supplied fields, then updated_at
ApplyUpdates(row, title, current_mood, goals, t) ==
    [ row EXCEPT !.title = IF title = None THEN @ ELSE title[1],
                 !.current_mood = IF current_mood = None THEN @ ELSE current_mood,
                 !.goals = IF goals = None THEN @ ELSE goals[1],
                 !.updated_at = t ]

update_conversation(cid, title, current_mood, goals, t) ==
    IF title = None /\ current_mood = None /\ goals = None
    THEN \* "if not updates: return False": nothing executed, nothing committed
         /\ t = now
         /\ result' = Result("update_conversation", cid, <<title, current_mood, goals>>, "returned",
                              FALSE, "none", Before(cid))
         /\ UNCHANGED <<store, now, next_conversation_id, next_message_id>>
    ELSE LET convs == [ c \in DOMAIN conversations |->
                          IF c = cid
                          THEN ApplyUpdates(conversations[c], title, current_mood, goals, t)
                          ELSE conversations[c] ]
         IN /\ conversations' = convs
            /\ committed_conversations' = convs
            /\ committed_messages' = messages
            /\ result' = Result("update_conversation", cid, <<title, current_mood, goals>>, "returned",
                                 Exists(cid), "none", Before(cid))
            /\ now' = t
            /\ UNCHANGED <<messages, next_conversation_id, next_message_id>>

\* ---- update_conversation_title_and_summary ------------------------------------------
\* a title commit that keeps the title of an already summarized conversation
SetTitleOnceAndSummary(row, title, t) ==
    [ row EXCEPT !.title = IF row.summary_generated THEN @ ELSE title,
                 !.summary_generated = TRUE, !.updated_at = t ]

\* a title commit that writes the whole row anew (INSERT OR REPLACE), message
\* count and all
SetTitleReplacingRow(row, title, t) ==
    [ NewConversation(title, row.created_at) EXCEPT !.summary_generated = TRUE, !.updated_at = t ]

\* SET title = ?, summary_generated = TRUE, updated_at = ?
SetTitleAndSummary(row, title, t) ==
    [ row EXCEPT !.title = title, !.summary_generated = TRUE, !.updated_at = t ]

update_conversation_title_and_summary(cid, title, t) ==
    LET convs == [ c \in DOMAIN conversations |->
                     IF c = cid THEN SetTitleAndSummary(conversations[c], title, t)
                     ELSE conversations[c] ]
    IN /\ conversations' = convs
       /\ committed_conversations' = convs
       /\ committed_messages' = messages
       /\ result' = Result("update_conversation_title_and_summary", cid, Some(title),
                            "returned", Exists(cid), "none", Before(cid))
       /\ now' = t
       /\ UNCHANGED <<messages, next_conversation_id, next_message_id>>

\* ---- delete_conversation ----------------------------------------------------------
\* DELETE FROM conversations WHERE id = ?, then commit.  Foreign keys are not
\* enforced on the connection, so no row of the messages table is deleted.
delete_conversation(cid) ==
    LET convs == [ c \in DOMAIN conversations \ {cid} |-> conversations[c] ]
    IN /\ conversations' = convs
       /\ committed_conversations' = convs
       /\ committed_messages' = messages
       /\ UNCHANGED messages
       /\ result' = Result("delete_conversation", cid, None, "returned", Exists(cid), "none",
                            Before(cid))
       /\ UNCHANGED <<now, next_conversation_id, next_message_id>>

\* ---- init_database ------------------------------------------------------------
\* Run again on the open connection: the tables and the summary_generated
\* column exist, so CREATE TABLE IF NOT EXISTS and _run_migrations change
\* nothing, and the closing commit makes the open transaction durable.
init_database ==
    /\ committed_conversations' = conversations
    /\ committed_messages' = messages
    /\ result' = Result("init_database", UnknownId, None, "returned", None, "none", None)
    /\ UNCHANGED <<conversations, messages, now, next_conversation_id, next_message_id>>

\* ---- search_conversations -------------------------------------------------------
\* lower case of the ASCII letters that occur in the model's texts
Lower(ch) == CASE ch = "A" -> "a" [] ch = "B" -> "b" [] ch = "H" -> "h" [] OTHER -> ch

\* SQLite's LIKE: % matches any run of characters, _ any one character,
\* other characters match themselves without regard to ASCII case
RECURSIVE Like(_, _)
Like(pattern, text) ==
    IF pattern = <<>> THEN text = <<>>
    ELSE IF Head(pattern) = "%"
         THEN Like(Tail(pattern), text) \/ (text # <<>> /\ Like(pattern, Tail(text)))
         ELSE /\ text # <<>>
              /\ Head(pattern) = "_" \/ Lower(Head(pattern)) = Lower(Head(text))
              /\ Like(Tail(pattern), Tail(text))

\* f'%{query}%'
Contains(query) == <<"%">> \o query \o <<"%">>

\* WHERE c.title LIKE ? OR m.content LIKE ? over conversations LEFT JOIN messages
Matches(cid, query) ==
    \/ Like(Contains(query), conversations[cid].title)
    \/ \E i \in RowsOf(messages, cid) : Like(Contains(query), messages[i].content)

\* SELECT DISTINCT c.* ... ORDER BY c.updated_at DESC LIMIT ?   (the listed ids)
search_conversations(query, limit) ==
    { LimitOffset(ids, limit, 0) :
        ids \in OrderByDesc({ c \in DOMAIN conversations : Matches(c, query) },
                            LAMBDA c : conversations[c].updated_at) }

\* ---- generate_title (summarizer.py) --------------------------------------------
\* length limits of the summarizer
ShortMessageLimit == 60
TitleLimit == 60
TitleCut == 57
FallbackCut == 50

Whitespace == {" ", "\n", "\t"}
Quotes == {"\"", "'"}

RECURSIVE LStrip(_, _)
LStrip(s, chs) == IF s # <<>> /\ Head(s) \in chs THEN LStrip(Tail(s), chs) ELSE s

RECURSIVE RStrip(_, _)
RStrip(s, chs) ==
    IF s # <<>> /\ s[Len(s)] \in chs THEN RStrip(SubSeq(s, 1, Len(s) - 1), chs) ELSE s

\* str.strip(): without an argument it strips white space
Strip(s, chs) == RStrip(LStrip(s, chs), chs)

\* s[:n]
Prefix(s, n) == SubSeq(s, 1, Min(n, Len(s)))

Ellipsis == <<".", ".", ".">>

EmptyConversationTitle ==
    << "E", "m", "p", "t", "y", " ", "c", "o", "n", "v", "e", "r", "s", "a",
       "t", "i", "o", "n" >>

NoUserMessageTitle ==
    << "N", "o", " ", "u", "s", "e", "r", " ", "m", "e", "s", "s", "a", "g",
       "e", " ", "f", "o", "u", "n", "d" >>

UntitledTitle ==
    << "U", "n", "t", "i", "t", "l", "e", "d", " ", "c", "o", "n", "v", "e",
       "r", "s", "a", "t", "i", "o", "n" >>

UnavailableTitle ==
    << "C", "o", "n", "v", "e", "r", "s", "a", "t", "i", "o", "n", " ", "s",
       "u", "m", "m", "a", "r", "y", " ", "u", "n", "a", "v", "a", "i", "l",
       "a", "b", "l", "e" >>

\* the first message whatever its role
FirstMessage(msgs, i) == IF i > Len(msgs) THEN 0 ELSE i

\* next((msg for msg in messages if msg.role == "user"), None), as an index (0: none)
RECURSIVE FirstUser(_, _)
FirstUser(msgs, i) ==
    IF i > Len(msgs) THEN 0
    ELSE IF msgs[i].role = "user" THEN i ELSE FirstUser(msgs, i + 1)

\* a fallback that cuts where the generated titles are cut
FallbackTitleAtTitleCut(content) ==
    Strip(Prefix(content, TitleCut), Whitespace)
      \o (IF Len(content) > TitleCut THEN Ellipsis ELSE <<>>)

\* the except branches: content[:50].strip(), plus "..." if the content was cut
FallbackTitle(content) ==
    Strip(Prefix(content, FallbackCut), Whitespace)
      \o (IF Len(content) > FallbackCut THEN Ellipsis ELSE <<>>)

\* does generate_title reach self.model.request for this message list?
CallsModel(msgs) ==
    /\ FirstUser(msgs, 1) # 0
    /\ Len(msgs[FirstUser(msgs, 1)].content) > ShortMessageLimit

\* a title cut at the limit itself, with the marker after it
TitleFromReplyCutAtLimit(text) ==
    LET title == Strip(Strip(Strip(text, Whitespace), Quotes), Whitespace)
        cut == IF Len(title) > TitleLimit THEN Prefix(title, TitleLimit) \o Ellipsis ELSE title
    IN IF cut # <<>> THEN cut ELSE UntitledTitle

\* the title made from a reply that carries text
TitleFromReply(text) ==
    LET title == Strip(Strip(Strip(text, Whitespace), Quotes), Whitespace)
        cut == IF Len(title) > TitleLimit THEN Prefix(title, TitleCut) \o Ellipsis ELSE title
    IN IF cut # <<>> THEN cut ELSE UntitledTitle

\* a generate_title that hands a message of exactly 60 characters to the model
generate_title_below_limit(msgs, reply) ==
    IF msgs = <<>> THEN EmptyConversationTitle
    ELSE IF FirstUser(msgs, 1) = 0 THEN NoUserMessageTitle
    ELSE LET content == msgs[FirstUser(msgs, 1)].content
         IN IF Len(content) < ShortMessageLimit THEN Strip(content, Whitespace)
            ELSE CASE reply.kind = "text" -> TitleFromReply(reply.content)
                   [] reply.kind = "no_parts" -> UnavailableTitle
                   [] OTHER -> FallbackTitle(content)

\* generate_title.  reply is what the model collaborator does if it is asked:
\* kind "text" with a content, kind "no_parts" (a response without parts),
\* kind "tool_call" (parts[0] has no content attribute: AttributeError, caught)
\* or kind "raised" (request raises, caught)
generate_title(msgs, reply) ==
    IF msgs = <<>> THEN EmptyConversationTitle
    ELSE IF FirstUser(msgs, 1) = 0 THEN NoUserMessageTitle
    ELSE LET content == msgs[FirstUser(msgs, 1)].content
         IN IF Len(content) <= ShortMessageLimit THEN Strip(content, Whitespace)
            ELSE CASE reply.kind = "text" -> TitleFromReply(reply.content)
                   [] reply.kind = "no_parts" -> UnavailableTitle
                   [] OTHER -> FallbackTitle(content)

\* generate_title_sync: run generate_title to completion on the event loop;
\* if setting up or running the loop raises (loop_ok false), the wrapper's own
\* except branch builds the title
generate_title_sync(msgs, reply, loop_ok) ==
    IF loop_ok THEN generate_title(msgs, reply)
    ELSE IF msgs # <<>> /\ FirstUser(msgs, 1) # 0
         THEN FallbackTitle(msgs[FirstUser(msgs, 1)].content)
         ELSE UntitledTitle

\* ---- generate_conversation_summary (streamlit_app.py) ---------------------------
\* "if len(messages) >= 2"
MinSummaryMessages == 2

NoReply == [kind |-> "none", content |-> <<>>]

\* get_messages, generate_title_sync, update_conversation_title_and_summary;
\* any exception is caught and None returned
generate_conversation_summary(cid, reply, loop_ok, t) ==
    \E msgs \in get_messages(cid) :
       IF Len(msgs) >= MinSummaryMessages
       THEN LET asked == loop_ok /\ CallsModel(msgs)
                title == generate_title_sync(msgs, reply, loop_ok)
                convs == [ c \in DOMAIN conversations |->
                             IF c = cid THEN SetTitleAndSummary(conversations[c], title, t)
                             ELSE conversations[c] ]
            IN /\ asked \/ reply = NoReply
               /\ ~asked \/ reply # NoReply
               /\ conversations' = convs
               /\ committed_conversations' = convs
               /\ committed_messages' = messages
               /\ result' = Result("generate_conversation_summary", cid, None, "returned",
                                   Some(title), reply.kind, Before(cid))
               /\ now' = t
               /\ UNCHANGED <<messages, next_conversation_id, next_message_id>>
       ELSE /\ reply = NoReply /\ loop_ok /\ t = now
            /\ result' = Result("generate_conversation_summary", cid, None, "returned",
                                None, "none", Before(cid))
            /\ UNCHANGED <<store, now, next_conversation_id, next_message_id>>

\* ---- specification of the store ---------------------------------------------
\* one more call on the open store, within the explored length of call
\* sequences, made as a whole: the schema stays as init_database left it and
\* no other thread runs in between
Call == calls < MaxCalls /\ calls' = calls + 1 /\ UNCHANGED <<summary_column, threads, agent>>

\* a call of the store's API from outside the chat session
StoreCall == Call /\ UNCHANGED session

Next ==
    \/ \E title \in Titles, t \in ClockReads : StoreCall /\ create_conversation(title, t)
    \/ \E cid \in KnownIds, role \in Roles, content \in Contents, t \in ClockReads,
          fault \in Faults, auto \in BOOLEAN :
          StoreCall /\ add_message(cid, role, content, t, fault, auto)
    \/ \E cid \in KnownIds, args \in UpdateArgs, t \in ClockReads :
          StoreCall /\ update_conversation(cid, args[1], args[2], args[3], t)
    \/ \E cid \in KnownIds, title \in Titles, t \in ClockReads :
          StoreCall /\ update_conversation_title_and_summary(cid, title, t)
    \/ \E cid \in KnownIds : StoreCall /\ delete_conversation(cid)
    \/ StoreCall /\ init_database

Spec == Init /\ [][Next]_vars

\* ---- specification of the summary flow --------------------------------------
ShortText == <<"h", "i">>

\* 61 characters: one more than the short-message limit
LongText == [ i \in 1..(ShortMessageLimit + 1) |-> IF i = 1 THEN "H" ELSE "x" ]

SummaryContents == { ShortText, LongText }

\* what the model collaborator may do when asked for a title
Replies ==
    { [kind |-> "text", content |-> <<"\"", "T", "\"">>],
      [kind |-> "text", content |-> << >>],
      [kind |-> "tool_call", content |-> << >>],
      [kind |-> "raised", content |-> << >>] }

SummaryNext ==
    \/ \E t \in ClockReads : StoreCall /\ create_conversation(<<"a">>, t)
    \/ \E cid \in KnownIds \ {UnknownId}, role \in {"user", "assistant"},
          content \in SummaryContents, t \in ClockReads :
          StoreCall /\ add_message(cid, role, content, t, "none", FALSE)
    \/ \E cid \in KnownIds \ {UnknownId}, reply \in Replies \cup {NoReply},
          loop_ok \in BOOLEAN, t \in ClockReads :
          StoreCall /\ generate_conversation_summary(cid, reply, loop_ok, t)

SpecSummary == Init /\ [][SummaryNext]_vars

\* ---- specification of the summarizer ---------------------------------------------
\* longest message list handed to the summarizer
MaxTitleMessages == 2

\* " h ": short, with white space around it
PaddedText == <<" ", "h", " ">>

\* exactly 60 characters, the first one a blank
BoundaryText == [ i \in 1..ShortMessageLimit |-> IF i = 1 THEN " " ELSE "x" ]

\* 61 characters whose 50th is a blank
SpacedLongText ==
    [ i \in 1..(ShortMessageLimit + 1) |-> IF i = FallbackCut THEN " " ELSE "w" ]

TitleContents == { ShortText, PaddedText, BoundaryText, LongText, SpacedLongText }

\* List[Message] arguments: every list of at most MaxTitleMessages messages
TitleMessageLists ==
    UNION { [ 1..n -> { NewMessage(0, 1, role, content, 0) :
                          role \in {"user", "assistant"}, content \in TitleContents } ] :
            n \in 0..MaxTitleMessages }

\* what the model collaborator does when it is asked: the replies above, a
\* response without parts, a text of blanks and quotes only, a text of 61
\* characters, and a text of 61 characters in quotes
TitleReplies ==
    Replies \cup
    { [kind |-> "no_parts", content |-> << >>],
      [kind |-> "text", content |-> <<" ", "\"", "\"", " ">>],
      [kind |-> "text", content |-> [ i \in 1..(TitleLimit + 1) |-> "t" ]],
      [kind |-> "text",
       content |-> <<"\"">> \o [ i \in 1..(TitleLimit + 1) |-> "t" ] \o <<"\"">>] }

\* await summarizer.generate_title(messages), with a collaborator that would
\* answer reply; the record keeps the arguments and whether it was asked
title_request(msgs, reply) ==
    /\ result' = Result("generate_title", UnknownId, <<msgs, reply>>, "returned",
                        Some(generate_title(msgs, reply)),
                        IF CallsModel(msgs) THEN reply.kind ELSE "none", None)
    /\ UNCHANGED <<store, now, next_conversation_id, next_message_id>>

\* summarizer.generate_title_sync(messages)
title_request_sync(msgs, reply, loop_ok) ==
    /\ result' = Result("generate_title_sync", UnknownId, <<msgs, reply>>, "returned",
                        Some(generate_title_sync(msgs, reply, loop_ok)),
                        IF loop_ok /\ CallsModel(msgs) THEN reply.kind ELSE "none", None)
    /\ UNCHANGED <<store, now, next_conversation_id, next_message_id>>

\* generate_title keeps no state between calls, so one application per
\* behaviour covers it
Once == calls = 0 /\ calls' = 1 /\ UNCHANGED <<session, summary_column, threads, agent>>

TitleNext ==
    \/ \E msgs \in TitleMessageLists, reply \in TitleReplies :
          Once /\ title_request(msgs, reply)
    \/ \E msgs \in TitleMessageLists, reply \in TitleReplies, loop_ok \in BOOLEAN :
          Once /\ title_request_sync(msgs, reply, loop_ok)

SpecTitle == Init /\ [][TitleNext]_vars

\* ---- the chat session (streamlit_app.py, sync_agent.py, agent.py) -----------------
\* "conversation.message_count >= 4"
SummaryTrigger == 4

\* title of a lazily created conversation: "user_input[:50] + '...'"
LazyTitleCut == 50

\* datetime.now() after a read that returned t
ClockReadsFrom(t) == { u \in {t, t + 1} : u <= MaxTime }

\* f"Error: {str(e)}" for an error e of the model collaborator
ErrorReply == <<"E", "r", "r", "o", "r", ":", " ", "e">>

Turn(role, content) == [ role |-> role, content |-> content ]

\* what the user types
Inputs == { ShortText, LongText }

\* what the model collaborator does with a chat request
ChatReplies == { [kind |-> "text", content |-> <<"o", "k">>], [kind |-> "raised", content |-> << >>] }

\* outcomes of the storage engine inside update_conversation_title_and_summary
TitleFaults == {"none", "update", "commit"}

\* JournalingAssistant.chat with chat_with_agent and run_journaling_agent: the
\* user turn is appended to the history, message_history is built from that
\* history, and agent.run(message, message_history=...) hands the model the
\* message_history followed by the prompt; the reply is appended on success.
\* SyncJournalingAssistant.chat turns an error into the text "Error: ...".
AssistantChat(history, text, reply) ==
    LET appended == Append(history, Turn("user", text))
    IN [ request |-> Append(appended, Turn("user", text)),
         response |-> IF reply.kind = "text" THEN reply.content ELSE ErrorReply,
         history |-> IF reply.kind = "text"
                     THEN Append(appended, Turn("assistant", reply.content))
                     ELSE appended ]

\* a trigger that looks at the message count only
TriggersOnCountAlone(row) == row.message_count >= SummaryTrigger

\* "conversation.message_count >= 4 and not conversation.summary_generated"
Triggers(row) == row.message_count >= SummaryTrigger /\ ~row.summary_generated

\* one user input handled by main(): log the input, create the conversation if
\* the session has none, save the user message, ask the assistant, log and
\* save its answer, and run the summary trigger.  t1..t4 are the clock reads
\* of create_conversation, of the two add_message calls and of the title
\* commit; summary_reply, loop_ok, fault and auto are what the model
\* collaborator, the event loop and the storage engine do during the trigger.
\* Of the list get_messages returns, the trigger uses the length and the title
\* generate_title_sync makes of it.
chat_turn(text, reply, t1, t2, t3, t4, summary_reply, loop_ok, fault, auto) ==
    LET fresh == session.conversation_id = None
        cid == IF fresh THEN next_conversation_id ELSE session.conversation_id[1]
        title == IF Len(text) > LazyTitleCut THEN Prefix(text, LazyTitleCut) \o Ellipsis ELSE text
        convs0 == IF fresh
                  THEN [ c \in DOMAIN conversations \cup {cid} |->
                           IF c = cid
                           THEN [ NewConversation(title, t1) EXCEPT
                                    !.current_mood = session.current_mood ]
                           ELSE conversations[c] ]
                  ELSE conversations
        chat == AssistantChat(session.history, text, reply)
        msgs1 == Append(messages, NewMessage(next_message_id, cid, "user", text, t2))
        convs1 == IncrementCount(convs0, cid, t2)
        msgs2 == Append(msgs1, NewMessage(next_message_id + 1, cid, "assistant", chat.response, t3))
        convs2 == IncrementCount(convs1, cid, t3)
        triggered == cid \in DOMAIN convs2 /\ Triggers(convs2[cid])
        said == [ session EXCEPT !.conversation_id = Some(cid),
                                 !.log = @ \o << Turn("user", text), Turn("assistant", chat.response) >>,
                                 !.history = chat.history,
                                 !.request = chat.request ]
    IN /\ fresh => next_conversation_id <= MaxConv
       /\ ~fresh => t1 = now
       /\ triggered \/ (summary_reply = NoReply /\ loop_ok /\ fault = "none" /\ ~auto /\ t4 = t3)
       /\ messages' = msgs2
       /\ committed_messages' = msgs2
       /\ next_conversation_id' = IF fresh THEN cid + 1 ELSE next_conversation_id
       /\ next_message_id' = next_message_id + 2
       /\ result' = Result("chat", cid, Some(text), "returned", Some(chat.response), reply.kind,
                            IF fresh THEN None ELSE Before(cid))
       /\ IF ~triggered
          THEN /\ conversations' = convs2
               /\ committed_conversations' = convs2
               /\ session' = [ said EXCEPT !.trigger = "none" ]
               /\ now' = t3
          ELSE \E made \in { [ listed |-> Len(listed),
                                  asked |-> loop_ok /\ CallsModel(listed),
                                  title |-> generate_title_sync(listed, summary_reply, loop_ok) ] :
                                listed \in ListMessages(msgs2, cid) } :
                 LET asked == made.asked
                     summary == made.title
                     convs3 == [ c \in DOMAIN convs2 |->
                                   IF c = cid THEN SetTitleAndSummary(convs2[c], summary, t4)
                                   ELSE convs2[c] ]
                 IN IF made.listed < MinSummaryMessages
                    THEN /\ summary_reply = NoReply /\ loop_ok /\ fault = "none" /\ ~auto /\ t4 = t3
                         /\ conversations' = convs2
                         /\ committed_conversations' = convs2
                         /\ session' = [ said EXCEPT !.trigger = "skipped" ]
                         /\ now' = t3
                    ELSE /\ asked \/ summary_reply = NoReply
                         /\ ~asked \/ summary_reply # NoReply
                         /\ t4 \in ClockReadsFrom(t3)
                         /\ now' = t4
                         /\ CASE fault = "update" ->
                                   /\ ~auto
                                   /\ conversations' = convs2
                                   /\ committed_conversations' = convs2
                                   /\ session' = [ said EXCEPT !.trigger = "commit_failed" ]
                              [] fault = "commit" ->
                                   /\ conversations' = IF auto THEN convs2 ELSE convs3
                                   /\ committed_conversations' = convs2
                                   /\ session' = [ said EXCEPT !.trigger = "commit_failed" ]
                              [] OTHER ->
                                   /\ ~auto
                                   /\ conversations' = convs3
                                   /\ committed_conversations' = convs3
                                   /\ session' = [ said EXCEPT !.trigger =
                                         IF ~loop_ok THEN "loop_failed"
                                         ELSE IF summary_reply.kind \in {"raised", "tool_call"}
                                              THEN "model_failed"
                                              ELSE "committed" ]

\* SyncJournalingAssistant.set_mood: self.async_assistant.set_mood(mood), a
\* method JournalingAssistant does not define
set_mood(mood) ==
    /\ result' = Result("set_mood", UnknownId, Some(mood), "AttributeError", None, "none", None)
    /\ UNCHANGED <<store, session, now, next_conversation_id, next_message_id>>

\* SyncJournalingAssistant.add_goal: self.async_assistant.add_goal(goal), a
\* method JournalingAssistant does not define
add_goal(goal) ==
    /\ result' = Result("add_goal", UnknownId, Some(goal), "AttributeError", None, "none", None)
    /\ UNCHANGED <<store, session, now, next_conversation_id, next_message_id>>

\* a "New Chat" that creates the conversation row at once
create_new_conversation_with_row ==
    /\ next_conversation_id <= MaxConv
    /\ LET cid == next_conversation_id
           convs == [ c \in DOMAIN conversations \cup {cid} |->
                        IF c = cid THEN NewConversation(<<"a">>, now) ELSE conversations[c] ]
       IN /\ conversations' = convs
          /\ committed_conversations' = convs
          /\ committed_messages' = messages
          /\ session' = [ session EXCEPT !.conversation_id = Some(cid), !.log = << >> ]
          /\ next_conversation_id' = cid + 1
    /\ result' = Result("create_new_conversation", UnknownId, None, "returned", None, "none", None)
    /\ UNCHANGED <<messages, now, next_message_id>>

\* "New Chat": the UI forgets its conversation and its log; the assistant keeps
\* its history
create_new_conversation ==
    /\ session' = [ session EXCEPT !.conversation_id = None, !.log = << >> ]
    /\ result' = Result("create_new_conversation", UnknownId, None, "returned", None, "none", None)
    /\ UNCHANGED <<store, now, next_conversation_id, next_message_id>>

\* does a turn of the session's conversation end with at least SummaryTrigger
\* messages counted and no summary generated?  (a conversation created by the
\* turn itself has two messages after it)
TurnTriggers ==
    /\ session.conversation_id # None
    /\ Exists(session.conversation_id[1])
    /\ Triggers([ conversations[session.conversation_id[1]] EXCEPT !.message_count = @ + 2 ])

\* what the clock, the model collaborator, the event loop and the storage
\* engine may do during the summary trigger of a turn whose last message is
\* saved at t3
TriggerChoices(t3) ==
    IF ~TurnTriggers
    THEN { [ t4 |-> t3, summary_reply |-> NoReply, loop_ok |-> TRUE, fault |-> "none",
             auto |-> FALSE ] }
    ELSE [ t4 : ClockReadsFrom(t3), summary_reply : Replies \cup {NoReply},
           loop_ok : BOOLEAN, fault : TitleFaults, auto : BOOLEAN ]

SessionNext ==
    \/ \E text \in Inputs, reply \in ChatReplies, t1 \in ClockReadsFrom(now) :
          \E t2 \in ClockReadsFrom(t1) : \E t3 \in ClockReadsFrom(t2) :
             \E choice \in TriggerChoices(t3) :
                /\ Call /\ next_message_id + 1 <= MaxMsg
                /\ chat_turn(text, reply, t1, t2, t3, choice.t4, choice.summary_reply,
                             choice.loop_ok, choice.fault, choice.auto)
    \/ \E mood \in Moods : Call /\ set_mood(mood)
    \/ \E goal \in GoalLists : Call /\ add_goal(goal[1])
    \/ Call /\ create_new_conversation

SpecSession == Init /\ [][SessionNext]_vars

\* ---- the user interface around the session (streamlit_app.py) -------------------
\* most messages the model lets the session save
MaxSavedMsg == 6

\* content of the "Daily Reflection" quick action
DailyReflection ==
    << "H", "e", "l", "p", " ", "m", "e", " ", "r", "e", "f", "l", "e", "c",
       "t", " ", "o", "n", " ", "m", "y", " ", "d", "a", "y", ".", " ", "W",
       "h", "a", "t", " ", "w", "e", "n", "t", " ", "w", "e", "l", "l", " ",
       "a", "n", "d", " ", "w", "h", "a", "t", " ", "c", "o", "u", "l", "d",
       " ", "I", " ", "i", "m", "p", "r", "o", "v", "e", "?" >>

\* content of the "Gratitude Practice" quick action
GratitudePractice ==
    << "L", "e", "t", "'", "s", " ", "p", "r", "a", "c", "t", "i", "c", "e",
       " ", "g", "r", "a", "t", "i", "t", "u", "d", "e", ".", " ", "H", "e",
       "l", "p", " ", "m", "e", " ", "i", "d", "e", "n", "t", "i", "f", "y",
       " ", "t", "h", "i", "n", "g", "s", " ", "I", "'", "m", " ", "g", "r",
       "a", "t", "e", "f", "u", "l", " ", "f", "o", "r", " ", "t", "o", "d",
       "a", "y", "." >>

QuickActions == { DailyReflection, GratitudePractice }

\* a quick-action button: the message goes to the shown log and the page is
\* run again; nothing is saved and the assistant is not asked
quick_action(content) ==
    /\ session' = [ session EXCEPT !.log = Append(@, Turn("user", content)) ]
    /\ result' = Result("quick_action", UnknownId, Some(content), "returned", None, "none", None)
    /\ UNCHANGED <<store, now, next_conversation_id, next_message_id>>

\* the mood select box: the UI keeps the selected mood, then calls
\* assistant.set_mood, which raises
select_mood(mood) ==
    /\ session.current_mood # Some(mood)
    /\ session' = [ session EXCEPT !.current_mood = Some(mood) ]
    /\ result' = Result("select_mood", UnknownId, Some(mood), "AttributeError", None, "none", None)
    /\ UNCHANGED <<store, now, next_conversation_id, next_message_id>>

\* load_conversation: the UI takes over the stored conversation's id, mood and
\* messages; the assistant gets the stored goals unless assistant.set_mood
\* raised before; its history is not touched
load_conversation(cid) ==
    IF ~Exists(cid)
    THEN /\ result' = Result("load_conversation", cid, None, "returned", None, "none", None)
         /\ UNCHANGED <<store, session, now, next_conversation_id, next_message_id>>
    ELSE \E listed \in ListMessages(messages, cid) :
            LET row == conversations[cid]
                loaded == [ session EXCEPT
                              !.conversation_id = Some(cid),
                              !.current_mood = row.current_mood,
                              !.log = [ k \in DOMAIN listed |->
                                          Turn(listed[k].role, listed[k].content) ] ]
            IN /\ session' = IF row.current_mood # None THEN loaded
                             ELSE [ loaded EXCEPT !.goals = row.goals ]
               /\ result' = Result("load_conversation", cid, None,
                                   IF row.current_mood # None THEN "AttributeError" ELSE "returned",
                                   None, "none", Before(cid))
               /\ UNCHANGED <<store, now, next_conversation_id, next_message_id>>

\* the summary trigger with an event loop that works, a model collaborator
\* that answers or raises, and a title commit whose outcome is one of faults
TriggerChoicesWith(t3, faults) ==
    { choice \in TriggerChoices(t3) :
        /\ choice.loop_ok /\ ~choice.auto
        /\ choice.fault \in faults
        /\ choice.summary_reply.kind \in {"none", "text", "raised"} }

UINext ==
    \/ \E text \in Inputs, reply \in ChatReplies, t1 \in ClockReadsFrom(now) :
          \E t2 \in ClockReadsFrom(t1) : \E t3 \in ClockReadsFrom(t2) :
             \E choice \in TriggerChoicesWith(t3, {"none"}) :
                /\ Call /\ next_message_id + 1 <= MaxMsg
                /\ chat_turn(text, reply, t1, t2, t3, choice.t4, choice.summary_reply,
                             choice.loop_ok, choice.fault, choice.auto)
    \/ \E content \in QuickActions : Call /\ quick_action(content)
    \/ \E mood \in Moods : Call /\ select_mood(mood)
    \/ \E cid \in KnownIds : Call /\ load_conversation(cid)
    \/ Call /\ create_new_conversation

SpecUI == Init /\ [][UINext]_vars

\* ---- specification of the summary trigger ----------------------------------------
\* turns and New Chat, with title commits that may raise at their UPDATE
TriggerNext ==
    \/ \E text \in Inputs, reply \in ChatReplies, t1 \in ClockReadsFrom(now) :
          \E t2 \in ClockReadsFrom(t1) : \E t3 \in ClockReadsFrom(t2) :
             \E choice \in TriggerChoicesWith(t3, {"none", "update"}) :
                /\ Call /\ next_message_id + 1 <= MaxSavedMsg
                /\ chat_turn(text, reply, t1, t2, t3, choice.t4, choice.summary_reply,
                             choice.loop_ok, choice.fault, choice.auto)
    \/ Call /\ create_new_conversation

SpecTrigger == Init /\ [][TriggerNext]_vars

\* ---- opening an existing store file (database.py) ------------------------------------
\* ids of the conversations a store file may hold when it is opened
StoredIds == {1, 2}

\* a conversations row written before the summary_generated column existed
StoredRows ==
    { row \in [ title : Titles, user_name : {None},
                current_mood : {None} \cup { Some(x) : x \in Moods },
                goals : { << >> } \cup GoalLists,
                created_at : 0..MaxTime, updated_at : 0..MaxTime, message_count : {0, 1} ] :
        /\ row.created_at = 0
        /\ row.message_count = 0 => row.updated_at = 0 }

\* the row with the column added: a row written before reads the column's
\* DEFAULT FALSE
AddColumnDefaultTrue(row) ==
    [ title |-> row.title, user_name |-> row.user_name, current_mood |-> row.current_mood,
      goals |-> row.goals, created_at |-> row.created_at, updated_at |-> row.updated_at,
      message_count |-> row.message_count, summary_generated |-> TRUE ]

\* ALTER TABLE conversations ADD COLUMN summary_generated BOOLEAN DEFAULT FALSE
AddColumn(row) ==
    [ title |-> row.title, user_name |-> row.user_name, current_mood |-> row.current_mood,
      goals |-> row.goals, created_at |-> row.created_at, updated_at |-> row.updated_at,
      message_count |-> row.message_count, summary_generated |-> FALSE ]

\* the messages table of a store file with the conversations convs: one
\* message for every conversation that counts one
RECURSIVE StoredMessages(_, _)
StoredMessages(convs, ids) ==
    IF ids = {} THEN << >>
    ELSE LET cid == CHOOSE c \in ids : \A d \in ids : c <= d
             rest == StoredMessages(convs, ids \ {cid})
         IN IF convs[cid].message_count = 1
            THEN << NewMessage(cid, cid, "user", <<"h", "i">>, convs[cid].updated_at) >> \o rest
            ELSE rest

\* a store file left by an earlier run, before it is opened: written without
\* the summary_generated column, or with it
InitStored ==
    /\ summary_column \in BOOLEAN
    /\ threads = [ th \in Threads |-> Idle ]
    /\ agent = NoRun
    /\ \E ids \in SUBSET StoredIds : \E rows \in [ ids -> StoredRows ] :
          /\ messages = StoredMessages(rows, ids)
          /\ IF summary_column
             THEN \E flags \in [ ids -> BOOLEAN ] :
                     conversations
                        = [ c \in ids |->
                              [ AddColumn(rows[c]) EXCEPT !.summary_generated = flags[c] ] ]
             ELSE conversations = rows
    /\ committed_conversations = conversations
    /\ committed_messages = messages
    /\ now = 0
    /\ calls = 0
    /\ next_conversation_id = Cardinality(StoredIds) + 1
    /\ next_message_id = Cardinality(StoredIds) + 1
    /\ session = NewSession
    /\ result = Result("init", UnknownId, None, "returned", None, "none", None)

\* JournalingDatabase(db_path) on that file: connect, CREATE TABLE and CREATE
\* INDEX IF NOT EXISTS (the tables exist), _run_migrations, commit.  The
\* value says whether the migration ran.
open_store ==
    /\ calls < MaxCalls /\ calls' = calls + 1
    /\ LET file == committed_conversations
           convs == IF summary_column THEN file
                    ELSE [ c \in DOMAIN file |-> AddColumn(file[c]) ]
       IN /\ conversations' = convs
          /\ committed_conversations' = convs
          /\ messages' = committed_messages
          /\ UNCHANGED committed_messages
          /\ summary_column' = TRUE
          /\ result' = Result("open_store", UnknownId, None, "returned", Some(~summary_column),
                              "none", None)
    /\ UNCHANGED <<now, next_conversation_id, next_message_id, session, threads, agent>>

OpenNext == open_store

SpecOpen == InitStored /\ [][OpenNext]_vars

\* ---- specification of the message checks ---------------------------------------
\* role arguments: the two roles of the schema's CHECK and one it excludes
RoleArgs == Roles \cup {"assistant"}

\* content arguments: a text, and the empty text
ContentArgs == Contents \cup { << >> }

ValidationNext ==
    \/ \E title \in Titles, t \in ClockReads : StoreCall /\ create_conversation(title, t)
    \/ \E cid \in KnownIds \ {UnknownId}, role \in RoleArgs, content \in ContentArgs,
          t \in ClockReads :
          StoreCall /\ add_message(cid, role, content, t, "none", FALSE)

SpecValidation == Init /\ [][ValidationNext]_vars

\* ---- add_message called from two threads (database.py) -----------------------------
\* The sessions' threads share one JournalingDatabase and one connection
\* (check_same_thread=False) and take no lock; the connection runs one
\* statement at a time, so the calls interleave statement by statement, and all
\* statements run in the connection's one open transaction.

\* lines 181-194: the thread draws the id, reads the clock and builds the Message
add_message_begin(th, cid, role, content, t) ==
    /\ threads[th].pc = "idle"
    /\ calls < MaxCalls /\ calls' = calls + 1
    /\ next_message_id <= MaxMsg
    /\ threads' = [ threads EXCEPT ![th] =
                      [ pc |-> "insert",
                        message |-> Some(NewMessage(next_message_id, cid, role, content, t)) ] ]
    /\ next_message_id' = next_message_id + 1
    /\ now' = t
    /\ UNCHANGED <<store, next_conversation_id, summary_column, agent, session, result>>

\* lines 197-207: INSERT INTO messages
add_message_insert(th) ==
    /\ threads[th].pc = "insert"
    /\ messages' = Append(messages, threads[th].message[1])
    /\ threads' = [ threads EXCEPT ![th].pc = "update" ]
    /\ UNCHANGED <<conversations, committed_conversations, committed_messages, now, calls,
                   next_conversation_id, next_message_id, summary_column, agent, session, result>>

\* lines 210-214: UPDATE conversations SET updated_at = ?, message_count = message_count + 1
add_message_update(th) ==
    /\ threads[th].pc = "update"
    /\ conversations' = IncrementCount(conversations, threads[th].message[1].conversation_id,
                                        threads[th].message[1].timestamp)
    /\ threads' = [ threads EXCEPT ![th].pc = "commit" ]
    /\ UNCHANGED <<messages, committed_conversations, committed_messages, now, calls,
                   next_conversation_id, next_message_id, summary_column, agent, session, result>>

\* lines 216-217: conn.commit() makes durable all the connection has written,
\* then the Message is returned
add_message_commit(th) ==
    /\ threads[th].pc = "commit"
    /\ committed_conversations' = conversations
    /\ committed_messages' = messages
    /\ threads' = [ threads EXCEPT ![th] = Idle ]
    /\ result' = Result("add_message", threads[th].message[1].conversation_id,
                        Some(threads[th].message[1].content), "returned",
                        Some(threads[th].message[1].id), "none", None)
    /\ UNCHANGED <<conversations, messages, now, calls, next_conversation_id, next_message_id,
                   summary_column, agent, session>>

ThreadsNext ==
    \/ \E title \in Titles, t \in ClockReads :
          /\ \A th \in Threads : threads[th].pc = "idle"
          /\ StoreCall /\ create_conversation(title, t)
    \/ \E th \in Threads, cid \in DOMAIN conversations, role \in {"user", "assistant"},
          content \in Contents, t \in ClockReads :
          add_message_begin(th, cid, role, content, t)
    \/ \E th \in Threads : add_message_insert(th)
    \/ \E th \in Threads : add_message_update(th)
    \/ \E th \in Threads : add_message_commit(th)

SpecThreads == Init /\ [][ThreadsNext]_vars

\* ---- one turn sent to the agent (sync_agent.py, agent.py) -------------------------
\* most turns sent in a behaviour
MaxTurns == 2

\* "usage_limits=UsageLimits(request_limit=10)"
RequestLimit == 10

\* the phrases that enable the tools
TriggerPhrases ==
    { << "a", "n", "a", "l", "y", "z", "e", " ", "m", "y", " ", "m", "o", "o", "d" >>,
      << "s", "u", "m", "m", "a", "r", "i", "z", "e", " ", "o", "u", "r", " ", "c", "o", "n", "v", "e", "r", "s", "a", "t", "i", "o", "n" >>,
      << "w", "h", "a", "t", " ", "a", "r", "e", " ", "t", "h", "e", " ", "k", "e", "y", " ", "p", "o", "i", "n", "t", "s" >>,
      << "r", "e", "c", "a", "p" >>,
      << "s", "u", "m", "m", "a", "r", "y" >> }

UpperLetters == << "A", "B", "C", "D", "E", "F", "G", "H", "I", "J", "K", "L", "M", "N", "O", "P", "Q", "R", "S", "T", "U", "V", "W", "X", "Y", "Z" >>
LowerLetters == << "a", "b", "c", "d", "e", "f", "g", "h", "i", "j", "k", "l", "m", "n", "o", "p", "q", "r", "s", "t", "u", "v", "w", "x", "y", "z" >>

\* str.lower() on ASCII text
lower(text) ==
    [ i \in DOMAIN text |->
        IF \E k \in DOMAIN UpperLetters : UpperLetters[k] = text[i]
        THEN LowerLetters[CHOOSE k \in DOMAIN UpperLetters : UpperLetters[k] = text[i]]
        ELSE text[i] ]

\* "phrase in text"
In(phrase, text) ==
    \E i \in 0..(Len(text) - Len(phrase)) :
       \A j \in 1..Len(phrase) : text[i + j] = phrase[j]

\* "any(phrase in message.lower() for phrase in [...])"
should_enable_tools(message) == \E phrase \in TriggerPhrases : In(phrase, lower(message))

\* the tools handed to the Agent when they are enabled
Tools == {"analyze_sentiment", "summarize_chat"}

\* what the user sends: no phrase, a phrase in capitals, a phrase inside a
\* sentence, the beginning of a phrase only
AgentInputs == { ShortText, << "R", "E", "C", "A", "P" >>, << "m", "y", " ", "s", "u", "m", "m", "a", "r", "y" >>, << "s", "u", "m" >> }

\* what the model collaborator does with one request: a text, a call of one of
\* the two tools or of a tool nobody offered, an error
AgentAnswers ==
    { [kind |-> "text", content |-> <<"o", "k">>, tool |-> "none"],
      [kind |-> "tool_call", content |-> << >>, tool |-> "analyze_sentiment"],
      [kind |-> "tool_call", content |-> << >>, tool |-> "summarize_chat"],
      [kind |-> "tool_call", content |-> << >>, tool |-> "unknown"],
      [kind |-> "raised", content |-> << >>, tool |-> "none"] }

\* SyncJournalingAssistant.chat up to the first model request:
\* JournalingAssistant.chat appends the user turn to the history,
\* chat_with_agent builds message_history from it, run_journaling_agent decides
\* on the tools and starts agent.run with no request counted
chat_begin(text) ==
    /\ agent.pc = "idle"
    /\ calls < MaxTurns /\ calls' = calls + 1
    /\ agent' = [ pc |-> "request", message |-> text, tools |-> should_enable_tools(text),
                  requests |-> 0, returns |-> 0 ]
    /\ session' = [ session EXCEPT
                      !.history = Append(@, Turn("user", text)),
                      !.request = Append(Append(session.history, Turn("user", text)),
                                         Turn("user", text)) ]
    /\ result' = Result("chat_begin", UnknownId, Some(text), "running", None, "none", None)
    /\ UNCHANGED <<store, now, next_conversation_id, next_message_id, summary_column, threads>>

\* the turn returns value: the text of the model, appended to the history by
\* JournalingAssistant.chat, or the error text made by SyncJournalingAssistant.chat
\* (kind says what ended the run: a text, an error raised while the model was
\* asked or its answer handled, or the request limit)
chat_return(run, kind, value) ==
    /\ agent' = [ run EXCEPT !.pc = "idle" ]
    /\ session' = [ session EXCEPT !.history =
                      IF kind = "text" THEN Append(@, Turn("assistant", value)) ELSE @ ]
    /\ result' = Result("chat", UnknownId, Some(run.message), "returned", Some(value), kind, None)

\* a request limit that is compared after the request has been counted
LimitReachedAfterNext(run) == run.requests > RequestLimit

\* UsageLimits(request_limit=10), looked at before every request
LimitReached(run) == run.requests >= RequestLimit

\* one round of agent.run: the request limit is looked at, the model
\* collaborator is asked and answers.  A text ends the run, an error or a
\* reached limit ends it with the error text; a call of an offered tool is
\* executed next; after a call of a tool that was not offered the agent either
\* asks again or gives up with an error.
model_request(answer, again) ==
    /\ agent.pc = "request"
    /\ IF LimitReached(agent)
       THEN /\ answer.kind = "raised" /\ again
            /\ chat_return(agent, "usage_limit", ErrorReply)
       ELSE LET run == [ agent EXCEPT !.requests = @ + 1 ]
            IN CASE answer.kind = "text" ->
                      /\ again
                      /\ chat_return(run, "text", answer.content)
                 [] answer.kind = "raised" ->
                      /\ again
                      /\ chat_return(run, "raised", ErrorReply)
                 [] OTHER ->
                      IF agent.tools /\ answer.tool \in Tools
                      THEN /\ again
                           /\ agent' = [ run EXCEPT !.pc = "tool" ]
                           /\ UNCHANGED <<session, result>>
                      ELSE IF again
                           THEN /\ agent' = run
                                /\ UNCHANGED <<session, result>>
                           ELSE chat_return(run, "raised", ErrorReply)
    /\ UNCHANGED <<store, now, calls, next_conversation_id, next_message_id, summary_column,
                   threads>>

\* analyze_sentiment or summarize_chat: each returns its fixed text, which goes
\* to the model with the next request
run_tool ==
    /\ agent.pc = "tool"
    /\ agent' = [ agent EXCEPT !.pc = "request", !.returns = @ + 1 ]
    /\ UNCHANGED <<store, now, calls, next_conversation_id, next_message_id, summary_column,
                   threads, session, result>>

AgentStep ==
    \/ \E answer \in AgentAnswers, again \in BOOLEAN : model_request(answer, again)
    \/ run_tool

AgentNext ==
    \/ \E text \in AgentInputs : chat_begin(text)
    \/ \E answer \in AgentAnswers, again \in BOOLEAN : model_request(answer, again)
    \/ run_tool

\* loop.run_until_complete runs the turn until it returns: a started run takes
\* its next step, and every request to the model collaborator ends with an
\* answer or an error
SpecAgent == Init /\ [][AgentNext]_vars /\ WF_vars(AgentStep)

\* ---- specification of the metadata updates ------------------------------------
UpdateNext ==
    \/ \E title \in Titles, t \in ClockReads : StoreCall /\ create_conversation(title, t)
    \/ \E cid \in KnownIds, content \in Contents, t \in ClockReads,
          fault \in Faults, auto \in BOOLEAN :
          StoreCall /\ add_message(cid, "user", content, t, fault, auto)
    \/ \E cid \in KnownIds, args \in AllUpdateArgs, t \in ClockReads :
          StoreCall /\ update_conversation(cid, args[1], args[2], args[3], t)
    \/ \E cid \in KnownIds, title \in Titles, t \in ClockReads :
          StoreCall /\ update_conversation_title_and_summary(cid, title, t)

SpecUpdate == Init /\ [][UpdateNext]_vars

\* ---- properties ----------------------------------------------------------------
\* the call just made wrote the row of an existing conversation cid
Updated(cid) ==
    /\ result.id = cid
    /\ Exists(cid)
    /\ \/ result.op = "add_message" /\ result.outcome = "returned"
       \/ result.op \in {"update_conversation", "update_conversation_title_and_summary"}
          /\ result.value = TRUE

\* position of x in the sequence s (0: absent)
Position(s, x) == IF \E i \in DOMAIN s : s[i] = x THEN CHOOSE i \in DOMAIN s : s[i] = x ELSE 0

\* s lists conversation ids with non-increasing updated_at
DescendingUpdatedAt(s) ==
    \A i, j \in DOMAIN s :
        i < j => conversations[s[i]].updated_at >= conversations[s[j]].updated_at

\* C1: every existing conversation's message_count equals the number of
\* messages get_messages returns for it.
MessageCountMatchesMessages ==
    \A cid \in DOMAIN conversations :
        \A msgs \in get_messages(cid) : conversations[cid].message_count = Len(msgs)

\* C2: add_message is all-or-nothing: no committed state holds a message row
\* without its message_count increment or an increment without its row, so in
\* every committed state each conversation's message_count is the number of
\* its committed message rows.
AddMessageAllOrNothing ==
    \A cid \in DOMAIN committed_conversations :
        committed_conversations[cid].message_count
            = Cardinality(RowsOf(committed_messages, cid))

\* C3: add_message with a conversation_id that references no existing
\* conversation fails and persists no message row.
AddMessageUnknownConversationFails ==
    (result.op = "add_message" /\ result.before = None)
        => /\ result.outcome # "returned"
           /\ \A i \in DOMAIN committed_messages :
                 committed_messages[i].id # next_message_id - 1

\* C4: after delete_conversation(id) returns, get_conversation(id) is absent
\* and get_messages(id) is the empty sequence.
DeleteRemovesConversationAndMessages ==
    result.op = "delete_conversation"
        => /\ get_conversation(result.id) = None
           /\ get_messages(result.id) = { << >> }

\* C5: every persisted message's conversation_id references a conversation
\* that currently exists.
NoOrphanMessages ==
    \A i \in DOMAIN messages : messages[i].conversation_id \in DOMAIN conversations

\* C6: summary_generated is false at create_conversation, only
\* update_conversation_title_and_summary changes it, and only to true; once
\* true it stays true while the conversation exists.
SummaryGeneratedMonotonic ==
    [][ \A cid \in DOMAIN conversations' :
          IF cid \in DOMAIN conversations
          THEN /\ conversations[cid].summary_generated
                    => conversations'[cid].summary_generated
               /\ conversations'[cid].summary_generated # conversations[cid].summary_generated
                    => /\ result'.op = "update_conversation_title_and_summary"
                       /\ result'.id = cid
          ELSE /\ result'.op = "create_conversation"
               /\ ~conversations'[cid].summary_generated ]_vars

\* C6 witness: a message was appended to, or the metadata updated of, a
\* conversation whose summary_generated was already true, or the store was
\* re-initialised while such a conversation exists.
SummaryGeneratedSurvives ==
    \/ /\ result.op \in {"add_message", "update_conversation"}
       /\ result.outcome = "returned"
       /\ result.before # None
       /\ result.before[1].summary_generated
       /\ Exists(result.id)
       /\ conversations[result.id].updated_at > result.before[1].updated_at
    \/ /\ result.op = "init_database"
       /\ \E cid \in DOMAIN conversations : conversations[cid].summary_generated

\* C7: in generate_conversation_summary, a run in which the model collaborator
\* failed leaves summary_generated false.
FailedSummaryLeavesFlagFalse ==
    ( /\ result.op = "generate_conversation_summary"
      /\ result.model = "raised"
      /\ Exists(result.id)
      /\ ~result.before[1].summary_generated )
        => ~conversations[result.id].summary_generated

\* C8: update_conversation_title_and_summary on an existing conversation
\* leaves summary_generated true and the title equal to the title of this call
\* (the latest title wins); a repeated call with the same title changes
\* neither the title nor the flag.
TitleCommitLastWriterWins ==
    ( /\ result.op = "update_conversation_title_and_summary"
      /\ result.before # None )
        => /\ result.value = TRUE
           /\ Exists(result.id)
           /\ conversations[result.id].title = result.arg[1]
           /\ conversations[result.id].summary_generated
           /\ ( result.before[1].summary_generated /\ result.before[1].title = result.arg[1] )
                => /\ conversations[result.id].title = result.before[1].title
                   /\ conversations[result.id].summary_generated
                          = result.before[1].summary_generated

\* C8 witness: a second title commit, with another title than the one
\* committed before.
SecondTitleCommit ==
    /\ result.op = "update_conversation_title_and_summary"
    /\ result.before # None
    /\ result.before[1].summary_generated
    /\ result.before[1].title # result.arg[1]
    /\ conversations[result.id].title = result.arg[1]

\* C9 as stated: the listings are ordered by updated_at descending, and right
\* after an update of A every listing that holds A and a later-created B has A
\* before B.
ListingOrderAsStated ==
    /\ \A limit \in Limits, offset \in Offsets :
          \A ids \in get_conversations(limit, offset) : DescendingUpdatedAt(ids)
    /\ \A query \in Queries, limit \in Limits :
          \A ids \in search_conversations(query, limit) : DescendingUpdatedAt(ids)
    /\ \A a, b \in DOMAIN conversations :
          (a < b /\ Updated(a))
             => /\ \A ids \in get_conversations(DefaultListLimit, 0) :
                      Position(ids, a) < Position(ids, b)
                /\ \A query \in Queries :
                      \A ids \in search_conversations(query, DefaultSearchLimit) :
                          (Position(ids, a) # 0 /\ Position(ids, b) # 0)
                             => Position(ids, a) < Position(ids, b)

\* C9 as amended: the listings are ordered by updated_at descending, and right
\* after an update of A that gave A a later updated_at than B's, every listing
\* that holds A and B has A before B.
ListingOrderedByUpdatedAt ==
    /\ \A limit \in Limits, offset \in Offsets :
          \A ids \in get_conversations(limit, offset) : DescendingUpdatedAt(ids)
    /\ \A query \in Queries, limit \in Limits :
          \A ids \in search_conversations(query, limit) : DescendingUpdatedAt(ids)
    /\ \A a, b \in DOMAIN conversations :
          (a < b /\ Updated(a) /\ conversations[a].updated_at > conversations[b].updated_at)
             => /\ \A ids \in get_conversations(DefaultListLimit, 0) :
                      Position(ids, a) < Position(ids, b)
                /\ \A query \in Queries :
                      \A ids \in search_conversations(query, DefaultSearchLimit) :
                          (Position(ids, a) # 0 /\ Position(ids, b) # 0)
                             => Position(ids, a) < Position(ids, b)

\* C9 witness: A was created before B and has just been updated at a later
\* time than B, and a search lists both.
UpdatedAheadOfLater ==
    \E a, b \in DOMAIN conversations :
        /\ a < b
        /\ Updated(a)
        /\ conversations[a].updated_at > conversations[b].updated_at
        /\ \E query \in Queries : \E ids \in search_conversations(query, DefaultSearchLimit) :
              Position(ids, a) # 0 /\ Position(ids, b) # 0

\* C10: get_messages returns the messages of a conversation in the order
\* they were added, also when two of them carry the same timestamp.
MessagesInInsertionOrder ==
    \A cid \in DOMAIN conversations :
        \A msgs \in get_messages(cid) :
            \A i, j \in DOMAIN msgs : i < j => msgs[i].id < msgs[j].id

\* C11: update_conversation is a partial update.  With no field supplied it
\* returns false and changes nothing, updated_at included.  With a field
\* supplied, on an existing conversation, it writes the supplied fields, sets
\* updated_at to the time of the call (never earlier than before) and returns
\* true; the fields not supplied, message_count, summary_generated, created_at,
\* user_name, every other conversation and every message stay as they were.
UpdateConversationIsPartial ==
    [][ result'.op = "update_conversation"
          => LET cid == result'.id
                 args == result'.arg
             IN /\ messages' = messages
                /\ DOMAIN conversations' = DOMAIN conversations
                /\ \A c \in DOMAIN conversations \ {cid} : conversations'[c] = conversations[c]
                /\ IF args = <<None, None, None>>
                   THEN result'.value = FALSE /\ UNCHANGED store
                   ELSE cid \in DOMAIN conversations
                          => LET old == conversations[cid]
                                 new == conversations'[cid]
                             IN /\ result'.value = TRUE
                                /\ new.title = IF args[1] = None THEN old.title ELSE args[1][1]
                                /\ new.current_mood
                                      = IF args[2] = None THEN old.current_mood ELSE args[2]
                                /\ new.goals = IF args[3] = None THEN old.goals ELSE args[3][1]
                                /\ new.message_count = old.message_count
                                /\ new.summary_generated = old.summary_generated
                                /\ new.created_at = old.created_at
                                /\ new.user_name = old.user_name
                                /\ new.updated_at = now'
                                /\ new.updated_at >= old.updated_at ]_vars

\* C11 witness: only the goals were supplied, for a conversation that
\* has a mood, a message and a title set earlier; the call returned true at a
\* later time than the row's last update.
PartialUpdateOfGoals ==
    /\ result.op = "update_conversation"
    /\ result.arg[1] = None /\ result.arg[2] = None /\ result.arg[3] # None
    /\ result.value = TRUE
    /\ result.before # None
    /\ result.before[1].current_mood # None
    /\ result.before[1].message_count > 0
    /\ result.before[1].goals # result.arg[3][1]
    /\ conversations[result.id].goals = result.arg[3][1]
    /\ conversations[result.id].updated_at > result.before[1].updated_at

\* ---- properties of the summarizer ------------------------------------------------
\* the message list and the collaborator's behaviour of the title call just made
TitleMsgs == result.arg[1]
TitleReply == result.arg[2]

HasUserMessage(msgs) == \E i \in DOMAIN msgs : msgs[i].role = "user"

\* content of the first user-role message of msgs
FirstUserContent(msgs) ==
    msgs[CHOOSE i \in DOMAIN msgs :
            /\ msgs[i].role = "user"
            /\ \A j \in 1..(i - 1) : msgs[j].role # "user"].content

\* s without the white space around it
Trimmed(s) ==
    IF \A i \in DOMAIN s : s[i] \in Whitespace THEN << >>
    ELSE LET first == CHOOSE i \in DOMAIN s :
                        s[i] \notin Whitespace /\ \A j \in 1..(i - 1) : s[j] \in Whitespace
             last == CHOOSE i \in DOMAIN s :
                        s[i] \notin Whitespace /\ \A j \in (i + 1)..Len(s) : s[j] \in Whitespace
         IN SubSeq(s, first, last)

\* the collaborator's reply is empty: no parts, or a text with nothing but
\* white space and quotes
EmptyReply(reply) ==
    \/ reply.kind = "no_parts"
    \/ reply.kind = "text"
       /\ \A i \in DOMAIN reply.content : reply.content[i] \in Whitespace \cup Quotes

\* C12: when the first user message has at most 60 characters, generate_title
\* returns its content without the surrounding white space and never asks the
\* model collaborator.
ShortMessageReturnedTrimmed ==
    ( /\ result.op = "generate_title"
      /\ HasUserMessage(TitleMsgs)
      /\ Len(FirstUserContent(TitleMsgs)) <= 60 )
        => /\ result.value = Some(Trimmed(FirstUserContent(TitleMsgs)))
           /\ result.model = "none"

\* C12 witness: the first user message, after an assistant message, has exactly
\* 60 characters and starts with a blank; the title is the 59 others although
\* the collaborator would have answered.
BoundaryMessageReturnedTrimmed ==
    /\ result.op = "generate_title"
    /\ Len(TitleMsgs) = 2
    /\ TitleMsgs[1].role = "assistant" /\ TitleMsgs[2].role = "user"
    /\ Len(TitleMsgs[2].content) = 60
    /\ TitleReply.kind = "text"
    /\ Len(result.value[1]) = 59
    /\ result.model = "none"

EmptyReplyFallsBack ==
    ( /\ result.op = "generate_title"
      /\ HasUserMessage(TitleMsgs)
      /\ Len(FirstUserContent(TitleMsgs)) > 60
      /\ EmptyReply(TitleReply) )
        => /\ result.value
                = Some(generate_title(TitleMsgs, [kind |-> "raised", content |-> << >>]))
           /\ result.value
                = Some(Trimmed(SubSeq(FirstUserContent(TitleMsgs), 1, 50)) \o <<".", ".", ".">>)

\* the message lists without a user-role message
NoUserLists == { msgs \in TitleMessageLists : ~HasUserMessage(msgs) }

\* C15 as stated: for a message list without a user-role message, empty or
\* not, generate_title returns one fixed placeholder, the same for all such
\* lists, and never asks the model collaborator.
OnePlaceholderWithoutUserMessage ==
    ( result.op = "generate_title" /\ ~HasUserMessage(TitleMsgs) )
        => /\ result.model = "none"
           /\ \A other \in NoUserLists :
                 \A reply \in TitleReplies : Some(generate_title(other, reply)) = result.value

\* C15 as amended: for a message list without a user-role message generate_title
\* never asks the model collaborator and returns a fixed placeholder: "Empty
\* conversation" for the empty list, "No user message found" for every other.
PlaceholderWithoutUserMessage ==
    ( result.op = "generate_title" /\ ~HasUserMessage(TitleMsgs) )
        => /\ result.model = "none"
           /\ result.value = IF Len(TitleMsgs) = 0
                             THEN Some(EmptyConversationTitle)
                             ELSE Some(NoUserMessageTitle)

\* C15 witness: two assistant messages, the first of 61 characters, and a
\* collaborator that would answer with a text.
PlaceholderForAssistantOnly ==
    /\ result.op = "generate_title"
    /\ Len(TitleMsgs) = 2
    /\ ~HasUserMessage(TitleMsgs)
    /\ Len(TitleMsgs[1].content) > 60
    /\ TitleReply.kind = "text"
    /\ result.value = Some(NoUserMessageTitle)

\* C16: for every message list and every behaviour of the model collaborator,
\* generate_title_sync returns the title generate_title returns, and returns
\* after the title generation has run (the collaborator was asked if the
\* message called for it).
SyncTitleEqualsAsyncTitle ==
    result.op = "generate_title_sync"
        => /\ result.value = Some(generate_title(TitleMsgs, TitleReply))
           /\ result.model = IF CallsModel(TitleMsgs) THEN TitleReply.kind ELSE "none"

\* ---- properties of the chat session -------------------------------------------------
\* the messages the store gained in this step
AddedMessages == { messages'[i] : i \in (Len(messages) + 1)..Len(messages') }

\* C17: the turn sequence handed to the model collaborator by a chat(text) call
\* is the session history as it was before the call, followed by the new user
\* message once.
TurnSequenceIsHistoryThenMessage ==
    [][ result'.op = "chat"
          => session'.request
               = session.history \o << [role |-> "user", content |-> result'.arg[1]] >> ]_vars

\* C18: when the model collaborator raises during a turn, the caller gets an
\* error text as the reply, the user message saved before the call is in the
\* store, and the turn adds no assistant-role message to the session history
\* or to the store.
FailedTurnAddsNoAssistantMessage ==
    [][ (result'.op = "chat" /\ result'.model = "raised")
          => /\ SubSeq(result'.value[1], 1, 7) = <<"E", "r", "r", "o", "r", ":", " ">>
             /\ \E m \in AddedMessages :
                   /\ m.role = "user" /\ m.content = result'.arg[1]
                   /\ m.conversation_id = result'.id
                   /\ \E i \in DOMAIN committed_messages' : committed_messages'[i] = m
             /\ \A i \in (Len(session.history) + 1)..Len(session'.history) :
                   session'.history[i].role # "assistant"
             /\ \A m \in AddedMessages : m.role # "assistant" ]_vars

\* C19: set_mood(m) makes m the session's mood and add_goal(g) appends g to the
\* session's goals; both return normally, ask the model collaborator nothing
\* and leave the store as it is.
MoodAndGoalChangeOnlyTheSession ==
    [][ result'.op \in {"set_mood", "add_goal"}
          => /\ result'.outcome = "returned"
             /\ result'.model = "none"
             /\ UNCHANGED store
             /\ result'.op = "set_mood" => session'.mood = result'.arg
             /\ result'.op = "add_goal"
                  => session'.goals = Append(session.goals, result'.arg[1]) ]_vars

\* the summary trigger of the last turn ran and failed
TriggerFailures == {"model_failed", "loop_failed", "commit_failed"}

\* C20: a turn whose summary trigger failed (the summarizer's model request or
\* event loop failed, or the title commit raised) still returns its reply,
\* shows it, and keeps its user and assistant message in the store, committed,
\* with message_count two higher than before the turn.
FailedTriggerKeepsTheTurn ==
    [][ (result'.op = "chat" /\ session'.trigger \in TriggerFailures)
          => LET cid == result'.id
                 n == Len(messages)
             IN /\ result'.outcome = "returned"
                /\ session'.log[Len(session'.log)]
                      = [role |-> "assistant", content |-> result'.value[1]]
                /\ Len(messages') = n + 2
                /\ committed_messages' = messages'
                /\ messages'[n + 1].role = "user"
                /\ messages'[n + 1].content = result'.arg[1]
                /\ messages'[n + 1].conversation_id = cid
                /\ messages'[n + 2].role = "assistant"
                /\ messages'[n + 2].content = result'.value[1]
                /\ messages'[n + 2].conversation_id = cid
                /\ SubSeq(messages', 1, n) = messages
                /\ cid \in DOMAIN conversations
                /\ conversations'[cid].message_count = conversations[cid].message_count + 2
                /\ committed_conversations'[cid].message_count
                      = conversations[cid].message_count + 2 ]_vars

\* C20 witness: the title commit of a turn's trigger raised at its commit and
\* left the new title pending on the connection; the conversation has its 4
\* messages.
TitleCommitFailedAfterTurn ==
    /\ result.op = "chat"
    /\ session.trigger = "commit_failed"
    /\ conversations[result.id].summary_generated
    /\ ~committed_conversations[result.id].summary_generated
    /\ committed_conversations[result.id].message_count = 4
    /\ Cardinality(RowsOf(committed_messages, result.id)) = 4

\* ---- properties of the summary trigger and of the user interface ----------------------
\* C21: a turn runs the title summarizer exactly when, after the turn, the
\* conversation's message_count is at least 4 and its summary_generated was
\* false; a turn of a conversation whose summary_generated is true runs no
\* summarizer and leaves the title and the flag as they were.
TriggerExactlyWhenDue ==
    [][ result'.op = "chat"
          => LET cid == result'.id
                 summarized == cid \in DOMAIN conversations
                                 /\ conversations[cid].summary_generated
                 ran == session'.trigger \notin {"none", "skipped"}
             IN /\ ran <=> (conversations'[cid].message_count >= 4 /\ ~summarized)
                /\ summarized
                     => /\ conversations'[cid].title = conversations[cid].title
                        /\ conversations'[cid].summary_generated ]_vars

\* C21 witness: a third turn of a conversation whose summary was committed by
\* the second: six messages, no trigger, the title kept.
NoTriggerAfterSummary ==
    /\ result.op = "chat"
    /\ result.before # None
    /\ result.before[1].summary_generated
    /\ result.before[1].message_count = 4
    /\ conversations[result.id].message_count = 6
    /\ session.trigger = "none"
    /\ conversations[result.id].title = result.before[1].title

\* C22: conversations are created lazily.  No row exists when the session
\* starts; New Chat and every other action than a sent message creates none;
\* a message sent while the session has no conversation creates exactly one,
\* titled with the message (its first 50 characters and "..." if it is
\* longer), and makes it the session's conversation; a message sent while the
\* session has a conversation creates none; the turn's messages are appended
\* to the session's conversation.
ConversationCreatedLazily ==
    [][ /\ calls = 0 => conversations = << >> /\ session.conversation_id = <<>>
        /\ result'.op # "chat"
             => DOMAIN conversations' = DOMAIN conversations /\ messages' = messages
        /\ result'.op = "chat"
             => LET cid == result'.id
                    text == result'.arg[1]
                IN /\ session'.conversation_id = <<cid>>
                   /\ IF session.conversation_id = <<>>
                      THEN /\ cid \notin DOMAIN conversations
                           /\ DOMAIN conversations' = DOMAIN conversations \cup {cid}
                           /\ conversations'[cid].created_at >= now
                           /\ conversations'[cid].title
                                 = (IF Len(text) > 50
                                    THEN SubSeq(text, 1, 50) \o <<".", ".", ".">>
                                    ELSE text)
                      ELSE /\ session.conversation_id = <<cid>>
                           /\ DOMAIN conversations' = DOMAIN conversations
                   /\ Len(messages') = Len(messages) + 2
                   /\ messages'[Len(messages) + 1].content = text
                   /\ \A i \in (Len(messages) + 1)..Len(messages') :
                         messages'[i].conversation_id = cid ]_vars

\* C22 witness: after New Chat a message of 61 characters was sent and created
\* the second conversation, with a title of 53 characters.
SecondConversationCreatedBySending ==
    /\ result.op = "chat"
    /\ result.before = None
    /\ result.id = 2
    /\ session.conversation_id = <<2>>
    /\ Len(result.arg[1]) = 61
    /\ Len(conversations[2].title) = 53
    /\ conversations[2].message_count = 2

\* C23: opening a store file whose conversations table lacks the
\* summary_generated column adds the column: every conversation keeps the
\* values of all fields it had and reads summary_generated = false, and every
\* message stays as it was; opening a file that has the column changes no
\* row.  What the open made is committed.
OpenMigratesInPlace ==
    [][ result'.op = "open_store"
          => /\ messages' = messages
             /\ committed_messages' = messages
             /\ committed_conversations' = conversations'
             /\ DOMAIN conversations' = DOMAIN conversations
             /\ summary_column'
             /\ result'.value = <<~summary_column>>
             /\ IF summary_column
                THEN conversations' = conversations
                ELSE \A cid \in DOMAIN conversations :
                        /\ \A field \in DOMAIN conversations[cid] :
                              conversations'[cid][field] = conversations[cid][field]
                        /\ DOMAIN conversations'[cid]
                              = DOMAIN conversations[cid] \cup {"summary_generated"}
                        /\ conversations'[cid].summary_generated = FALSE ]_vars

\* C23 witness: the migration ran on a file with two conversations, one of
\* them with a mood, goals and a message.
MigratedStoredConversations ==
    /\ result.op = "open_store"
    /\ result.value = <<TRUE>>
    /\ Cardinality(DOMAIN conversations) = 2
    /\ Len(messages) >= 1
    /\ \E cid \in DOMAIN conversations :
          /\ conversations[cid].current_mood # <<>>
          /\ conversations[cid].goals # <<>>
          /\ conversations[cid].message_count = 1
          /\ conversations[cid].updated_at > conversations[cid].created_at
          /\ ~conversations[cid].summary_generated

\* C24: add_message persists only messages with role user or assistant and a
\* content that is not empty: a call that returns has added such a message, a
\* call with empty content does not return normally, and a call that does not
\* return normally leaves the messages and every conversation (message_count
\* and updated_at included) as they were.
OnlyValidMessagesPersisted ==
    [][ result'.op = "add_message"
          => /\ result'.arg = << << >> >> => result'.outcome # "returned"
             /\ result'.outcome # "returned" => UNCHANGED store
             /\ result'.outcome = "returned"
                  => /\ Len(messages') = Len(messages) + 1
                     /\ messages'[Len(messages')].role \in {"user", "assistant"}
                     /\ messages'[Len(messages')].content # << >>
             /\ \A i \in DOMAIN committed_messages' :
                   /\ committed_messages'[i].role \in {"user", "assistant"}
                   /\ committed_messages'[i].content # << >> ]_vars

\* C25: when two threads call add_message through the shared connection, in
\* whatever order their statements run, every committed state holds complete
\* pairs only (each conversation's committed message_count is the number of
\* its committed message rows), and when no call is under way every
\* conversation's message_count is the number of its messages.
ConcurrentAppendsCommitPairs ==
    /\ \A cid \in DOMAIN committed_conversations :
          committed_conversations[cid].message_count
             = Cardinality({ i \in DOMAIN committed_messages :
                               committed_messages[i].conversation_id = cid })
    /\ (\A th \in Threads : threads[th].pc = "idle")
          => \A cid \in DOMAIN conversations :
                conversations[cid].message_count
                   = Cardinality({ i \in DOMAIN messages : messages[i].conversation_id = cid })

\* the call just made (primed state) appended a message to, or committed a
\* title of, the conversation cid, which existed
Stamped(cid) ==
    /\ result'.id = cid
    /\ cid \in DOMAIN conversations
    /\ \/ result'.op = "add_message" /\ result'.outcome = "returned"
       \/ result'.op = "update_conversation_title_and_summary"

\* created_at fixed, updated_at never less than before in the durable store and
\* never less than created_at, and set to the time of the call by every append
\* and title commit
TimestampsKept ==
    /\ \A cid \in DOMAIN conversations \cap DOMAIN conversations' :
          conversations'[cid].created_at = conversations[cid].created_at
    /\ \A cid \in DOMAIN committed_conversations \cap DOMAIN committed_conversations' :
          /\ committed_conversations'[cid].created_at = committed_conversations[cid].created_at
          /\ committed_conversations'[cid].updated_at >= committed_conversations[cid].updated_at
    /\ \A cid \in DOMAIN conversations' :
          conversations'[cid].updated_at >= conversations'[cid].created_at
    /\ \A cid \in DOMAIN committed_conversations' :
          committed_conversations'[cid].updated_at >= committed_conversations'[cid].created_at
    /\ \A cid \in DOMAIN conversations' :
          Stamped(cid) => /\ conversations'[cid].updated_at = now'
                          /\ committed_conversations'[cid].updated_at = now'

Unquoted(s) ==
    IF \A i \in DOMAIN s : s[i] \in {"\"", "'"} THEN << >>
    ELSE LET first == CHOOSE i \in DOMAIN s :
                        s[i] \notin {"\"", "'"} /\ \A j \in 1..(i - 1) : s[j] \in {"\"", "'"}
             last == CHOOSE i \in DOMAIN s :
                        s[i] \notin {"\"", "'"} /\ \A j \in (i + 1)..Len(s) : s[j] \in {"\"", "'"}
         IN SubSeq(s, first, last)

\* C27 as stated: whatever the message list and whatever the model
\* collaborator does, the title generate_title returns has at most 60
\* characters, and a reply of more than 60 characters becomes its first 57
\* characters followed by "...".
TitleWithinLimitCutFromReply ==
    result.op = "generate_title"
        => /\ Len(result.value[1]) <= 60
           /\ (result.model = "text" /\ Len(TitleReply.content) > 60)
                 => result.value[1] = SubSeq(TitleReply.content, 1, 57) \o <<".", ".", ".">>

\* C27 as amended: whatever the message list and whatever the model
\* collaborator does, the title generate_title returns has at most 60
\* characters, and a reply that has more than 60 characters once the white
\* space and quotes around it are removed becomes the first 57 of those
\* characters followed by "...".
TitleWithinLimitCutFromCleanedReply ==
    result.op = "generate_title"
        => /\ Len(result.value[1]) <= 60
           /\ LET cleaned == Trimmed(Unquoted(Trimmed(TitleReply.content)))
              IN (result.model = "text" /\ Len(cleaned) > 60)
                    => result.value[1] = SubSeq(cleaned, 1, 57) \o <<".", ".", ".">>

\* C27 witness: the collaborator answered a long message with 61 characters in
\* quotes; the title has 60 characters and starts with none of the quotes.
QuotedLongReplyCut ==
    /\ result.op = "generate_title"
    /\ result.model = "text"
    /\ Len(TitleReply.content) = 63
    /\ TitleReply.content[1] = "\""
    /\ Len(result.value[1]) = 60
    /\ result.value[1][1] = "t"
    /\ SubSeq(result.value[1], 58, 60) = <<".", ".", ".">>

\* C28: after New Chat or after loading a stored conversation, every turn of
\* the request the next chat call sends to the model is a turn of the
\* conversation that is current then: it has the role and content of one of
\* that conversation's messages.
RequestHoldsCurrentConversationOnly ==
    result.op = "chat"
        => \A k \in DOMAIN session.request :
              \E i \in DOMAIN messages :
                 /\ messages[i].conversation_id = result.id
                 /\ Turn(messages[i].role, messages[i].content) = session.request[k]

\* the turns of a list of stored messages
TurnsOf(listed) == [ k \in DOMAIN listed |-> Turn(listed[k].role, listed[k].content) ]

\* C29: after any sequence of typed messages, quick actions, New Chat and
\* loads without a storage error, the session's log equals what get_messages
\* returns for the session's conversation (nothing when it has none): the same
\* roles and contents in the same order.
LogEqualsStoredMessages ==
    \E listed \in IF session.conversation_id = None THEN { << >> }
                  ELSE ListMessages(messages, session.conversation_id[1]) :
       session.log = TurnsOf(listed)

\* C30: every turn sent terminates: chat returns a reply or an error value
\* whatever the model does; at most 10 model requests are issued in one turn,
\* also when the model keeps answering with tool calls; and tools are offered
\* only when the message contains one of the trigger phrases.
TurnSendTerminates ==
    /\ [](agent.requests <= 10)
    /\ [](agent.tools =>
             \E phrase \in TriggerPhrases :
                \E i \in 0..(Len(agent.message) - Len(phrase)) :
                   lower(SubSeq(agent.message, i + 1, i + Len(phrase))) = phrase)
    /\ (agent.pc # "idle") ~> (agent.pc = "idle" /\ result.op = "chat" /\ result.value # None)

\* C30 witness: the model answered ten requests of one turn with calls of the
\* offered tools, and the turn returned the error value.
TenToolCallsThenError ==
    /\ agent.pc = "idle"
    /\ agent.tools
    /\ agent.requests = 10
    /\ agent.returns = 10
    /\ result.op = "chat"
    /\ result.model = "usage_limit"
    /\ result.value = Some(ErrorReply)

====
